---- MODULE Spec2Model ----
\* A model of nbodykit/source/particle/hod.py: the HOD population of a halo
\* catalog.  Every rank runs HODBase.__init__ and HODBase.repopulate on its own
\* copy of the object; rank 0 runs the halotools model, and GatherArray /
\* ScatterArray move the rows between the ranks.
EXTENDS Integers, Sequences, FiniteSets, TLC

\* ---------------------------------------------------------------- bounds
MaxRanks == 2
MaxRows == 3
MaxCalls == 2
MaxHalos == 3
MaxDetCalls == 3

\* ---------------------------------------------------------------- values
None == [none |-> TRUE]
NoErr == <<>>
NoSeed == 0
Seeds == {NoSeed, 1}

\* the keys of HodModelFactory.param_dict, in the order the dict iterates
ParamOrder == <<"logMmin", "alpha">>
ModelParams == {ParamOrder[k] : k \in DOMAIN ParamOrder}
BadParam == "not_a_param"
ParamNames == ModelParams \cup {BadParam}
DefaultValue == 0
InitValue == 1
NewValue == 2

MassKey == "halo_mvir"
HaloCols == {MassKey}
GalCols == {"x", "y", "z", "vx", "vy", "vz", "gal_type", MassKey}
Schemas == {GalCols, GalCols \ {"y"}, GalCols \ {"vz"}, GalCols \ {"gal_type"}}
Variants == {1, 2}

Min(a, b) == IF a < b THEN a ELSE b

Elems(s) == {s[k] : k \in DOMAIN s}

\* ---------------------------------------------------------------- tables
\* A structured array / astropy Table: named columns of equal length, and the
\* dtype of each column.
NRows(t) == IF DOMAIN t.cols = {} THEN 0
            ELSE Len(t.cols[CHOOSE c \in DOMAIN t.cols : TRUE])

ColNames(t) == DOMAIN t.cols

Slice(t, lo, hi) ==
  [cols |-> [c \in DOMAIN t.cols |-> SubSeq(t.cols[c], lo, hi)], dtype |-> t.dtype]

Concat(a, b) ==
  [cols |-> [c \in DOMAIN a.cols |-> a.cols[c] \o b.cols[c]], dtype |-> a.dtype]

Row(t, k) == [c \in DOMAIN t.cols |-> t.cols[c][k]]

Rows(t) == [k \in 1..NRows(t) |-> Row(t, k)]

ColIdx(c) ==
  CASE c = "x" -> 1 [] c = "y" -> 2 [] c = "z" -> 3
    [] c = "vx" -> 4 [] c = "vy" -> 5 [] c = "vz" -> 6 [] OTHER -> 7

\* the value the model puts in column c of row k of its v-th possible output
GalValue(c, v, k) ==
  IF c = "gal_type" THEN (IF k % 2 = 1 THEN "centrals" ELSE "satellites")
  ELSE 100 * v + 10 * ColIdx(c) + k

\* model.mock.galaxy_table as halotools builds it: gal_type is an object column
GalaxyTable(schema, n, v) ==
  [cols  |-> [c \in schema |-> [k \in 1..n |-> GalValue(c, v, k)]],
   dtype |-> [c \in schema |-> IF c = "gal_type" THEN "O" ELSE "f8"]]

\* the halo table a rank holds before the population: n halos of its own
HaloTable(i, n) ==
  [cols  |-> [c \in HaloCols |-> [k \in 1..n |-> 10 * (i + 1) + k]],
   dtype |-> [c \in HaloCols |-> "f8"]]

\* numpy's astype('U') on a column of python strings
AsTypeU(col) == [k \in DOMAIN col |-> col[k]]

remove_object_dtypes(t) ==
  [cols  |-> [c \in DOMAIN t.cols |->
                IF t.dtype[c] = "O" THEN AsTypeU(t.cols[c]) ELSE t.cols[c]],
   dtype |-> [c \in DOMAIN t.dtype |->
                IF t.dtype[c] = "O" THEN "U" ELSE t.dtype[c]]]

\* ---------------------------------------------------------------- collectives
\* nbodykit.utils.GatherArray: the root receives the local arrays concatenated
\* by increasing rank, every other rank receives None.
RECURSIVE GatherUpTo(_, _)
GatherUpTo(locals, r) ==
  IF r = 0 THEN locals[0] ELSE Concat(GatherUpTo(locals, r - 1), locals[r])

GatherArray(locals, i, R) == IF i = 0 THEN GatherUpTo(locals, R - 1) ELSE None

\* nbodykit.utils.ScatterArray: the rows each rank receives
ShardSize(T, i, R) == IF i < T % R THEN (T \div R) + 1 ELSE T \div R

ShardOffset(T, i, R) == i * (T \div R) + Min(i, T % R)

\* a scatter that gives every rank T div R rows and drops the remainder
ScatterArrayTruncated(src, i, R) ==
  Slice(src, i * (NRows(src) \div R) + 1, (i + 1) * (NRows(src) \div R))

ScatterArray(src, i, R) ==
  Slice(src, ShardOffset(NRows(src), i, R) + 1,
             ShardOffset(NRows(src), i, R) + ShardSize(NRows(src), i, R))

\* ---------------------------------------------------------------- pure helpers
\* a loop that keeps the model's default for a key attrs lacks
SetHodParamsLenient(pd, at, k) ==
  [pd |-> [p \in DOMAIN pd |-> IF p \in DOMAIN at THEN at[p] ELSE pd[p]],
   err |-> NoErr]

\* HODBase.__init__, "set the HOD params": walk param_dict from its k-th key;
\* the first key that attrs lacks raises, the keys before it are already set
RECURSIVE SetHodParams(_, _, _)
SetHodParams(pd, at, k) ==
  IF k > Len(ParamOrder) THEN [pd |-> pd, err |-> NoErr]
  ELSE IF ParamOrder[k] \notin DOMAIN at
       THEN [pd |-> pd, err |-> <<"MissingParameterError", ParamOrder[k]>>]
       ELSE SetHodParams([pd EXCEPT ![ParamOrder[k]] = at[ParamOrder[k]]], at, k + 1)

\* a loop that skips the names the model does not know
UpdateHodParamsLenient(pd, names, k) ==
  [pd |-> [p \in DOMAIN pd |-> IF p \in Elems(names) THEN NewValue ELSE pd[p]],
   err |-> NoErr]

\* HODBase.repopulate, "update the HOD model parameters": walk the keyword
\* arguments from the k-th; the first unknown name raises
RECURSIVE UpdateHodParams(_, _, _)
UpdateHodParams(pd, names, k) ==
  IF k > Len(names) THEN [pd |-> pd, err |-> NoErr]
  ELSE IF names[k] \notin DOMAIN pd
       THEN [pd |-> pd, err |-> <<"UnknownParameterError", names[k]>>]
       ELSE UpdateHodParams([pd EXCEPT ![names[k]] = NewValue], names, k + 1)

\* HODBase._log_populated_stats: the column whose lookup raises, or "" if none
LogPopulatedStats(d) ==
  IF NRows(d) > 0
  THEN IF "gal_type" \notin ColNames(d) THEN "gal_type"
       ELSE IF MassKey \notin ColNames(d) THEN MassKey
       ELSE ""
  ELSE ""

\* numpy.vstack of three columns, and the transpose of the 3 x n result
VStack(a, b, c) == <<a, b, c>>

Transpose(m) == [k \in 1..Len(m[1]) |-> <<m[1][k], m[2][k], m[3][k]>>]

FirstMissing(t, names) ==
  IF names[1] \notin ColNames(t) THEN names[1]
  ELSE IF names[2] \notin ColNames(t) THEN names[2]
  ELSE IF names[3] \notin ColNames(t) THEN names[3]
  ELSE ""

StackColumns(t, names) ==
  IF FirstMissing(t, names) # ""
  THEN [val |-> <<>>, err |-> <<"MissingColumnError", FirstMissing(t, names)>>]
  ELSE [val |-> Transpose(VStack(t.cols[names[1]], t.cols[names[2]], t.cols[names[3]])),
        err |-> NoErr]

\* a Position without the transpose: the 3 x n stack itself
PositionUntransposed(t) ==
  IF FirstMissing(t, <<"x", "y", "z">>) # ""
  THEN [val |-> <<>>,
        err |-> <<"MissingColumnError", FirstMissing(t, <<"x", "y", "z">>)>>]
  ELSE [val |-> VStack(t.cols["x"], t.cols["y"], t.cols["z"]), err |-> NoErr]

\* a Position that stacks the columns it finds and fails on none
PositionLenient(t) ==
  IF FirstMissing(t, <<"x", "y", "z">>) # ""
  THEN [val |-> <<>>, err |-> NoErr]
  ELSE StackColumns(t, <<"x", "y", "z">>)

\* HODBase.Position and HODBase.Velocity on the array a rank holds
Position(t) == StackColumns(t, <<"x", "y", "z">>)

Velocity(t) == StackColumns(t, <<"vx", "vy", "vz">>)

\* Array.csize: the rows of all ranks together
RECURSIVE SumSizes(_, _, _)
SumSizes(T, r, R) ==
  IF r < 0 THEN 0 ELSE ShardSize(T, r, R) + SumSizes(T, r - 1, R)

\* the next value of the catalog's generation counter
BumpGeneration(g) == g + 1

\* the arrays populate_mock / mock.populate can leave in galaxy_table
MockTables ==
  {GalaxyTable(GalCols, n, 1) : n \in 0..MaxRows}
    \cup {GalaxyTable(GalCols, MaxRows, v) : v \in Variants}
    \cup {GalaxyTable(s, 1, 1) : s \in Schemas}

\* what populate_mock (line 117) and mock.populate (lines 161-163) can do on
\* the root: leave a galaxy table, or raise
Raises == [raises |-> TRUE]
Outcomes == MockTables \cup {Raises}

\* the values a parameter of the model can be bound to, and the arguments a
\* seeded call of the model depends on: the seed and the bindings
ParamValues == {DefaultValue, InitValue, NewValue}
SeededKeys == (Seeds \ {NoSeed}) \X [ModelParams -> ParamValues]

\* a model about which nothing is known: any outcome on any call
FreeOracle == [seeded |-> <<>>, unseeded |-> Outcomes]

\* keyword arguments: the names, in the order the caller's dict yields them
InitKwargs ==
  {<<>>, <<"logMmin">>, <<"alpha">>, <<"logMmin", "alpha">>,
   <<"logMmin", "alpha", BadParam>>, <<"alpha", BadParam>>}

RepopNames == {"alpha", BadParam}
RepopKwargs ==
  {<<>>} \cup {<<a>> : a \in RepopNames}
         \cup UNION {{<<a, b>> : b \in RepopNames \ {a}} : a \in RepopNames}

\* ---------------------------------------------------------------- state
\* nranks      comm.size (line 50)
\* pc          where each rank is in __init__ / _makesource / repopulate
\* call        the arguments of the call in progress, the same on every rank
\* ncalls      the repopulate calls made so far
\* entered     the steps of the call in progress each rank has reached, in
\*             order: the collectives it entered ("gather", "scatter"), the
\*             model call it made ("transform"), the Array.__init__ it ran
\*             ("install")
\* halos       self._halos.halo_table of each rank (lines 48, 113)
\* all_halos   the local all_halos of _makesource (lines 107, 114)
\* data        the local data of _makesource / repopulate (lines 121-124)
\* scattered   the array the root handed to ScatterArray (lines 130, 177)
\* attrs       self.attrs of each rank (lines 63-69, 148)
\* param_dict  self._model.param_dict of each rank (lines 78, 155)
\* source      self._source of each rank, set by Array.__init__ (lines 81, 177)
\* populated   __init__ has returned on the rank without raising
\* generation  the generation counter of the rank's catalog
\* err         the exception the rank's call raised, if any
\* before      self._source, attrs, param_dict and generation on entry to the
\*             repopulate in progress
\* ret         what Position / Velocity returned to the last reader
\* oracle      what the model does when it is called: the one outcome of each
\*             seeded call that is known to be deterministic, and the
\*             outcomes any other call can have
\* memo        for each seeded call the oracle knows, the rows each rank took
\*             as its source the first time a repopulate made that call, and
\*             which repopulate that was
VARIABLES oracle, memo, nranks, pc, call, ncalls, entered, halos, all_halos, data,
          scattered, attrs, param_dict, source, populated, generation,
          err, before, ret

vars == <<oracle, memo, nranks, pc, call, ncalls, entered, halos, all_halos, data,
          scattered, attrs, param_dict, source, populated, generation,
          err, before, ret>>

Ranks == 0..(nranks - 1)
NoRet == [rank |-> -1, col |-> "", val |-> <<>>, err |-> NoErr]
Snapshot == [source |-> source, generation |-> generation,
             attrs |-> attrs, param_dict |-> param_dict]

\* the outcomes of a call of the model with seed=self.attrs['seed'] (lines 117,
\* 163) and the bindings of its param_dict; seed=None draws a fresh seed
PopulateOutcomes(seed, pd) ==
  IF seed # NoSeed /\ <<seed, pd>> \in DOMAIN oracle.seeded
  THEN {oracle.seeded[<<seed, pd>>]}
  ELSE oracle.unseeded

\* the repopulate calls a behaviour makes at most
CallLimit == IF oracle = FreeOracle THEN MaxCalls ELSE MaxDetCalls

\* the memo after rank i has taken shard as its source in a repopulate
Remember(i, shard) ==
  LET key == <<attrs[i]["seed"], param_dict[i]>>
  IN IF key \in DOMAIN memo /\ memo[key][i] = None
     THEN [memo EXCEPT ![key][i] = [call |-> ncalls, rows |-> shard]]
     ELSE memo

InitWith(R, hn, seed, kw, start) ==
  /\ nranks = R
  /\ pc = [i \in 0..(R - 1) |-> start]
  /\ call = [op |-> "init", seed |-> seed, params |-> kw]
  /\ ncalls = 0
  /\ entered = [i \in 0..(R - 1) |-> <<>>]
  /\ halos = [i \in 0..(R - 1) |-> HaloTable(i, hn[i])]
  /\ all_halos = [i \in 0..(R - 1) |-> None]
  /\ data = [i \in 0..(R - 1) |-> None]
  /\ scattered = None
  /\ attrs = [i \in 0..(R - 1) |-> <<>>]
  /\ param_dict = [i \in 0..(R - 1) |-> <<>>]
  /\ source = [i \in 0..(R - 1) |-> None]
  /\ populated = [i \in 0..(R - 1) |-> FALSE]
  /\ generation = [i \in 0..(R - 1) |-> 0]
  /\ err = [i \in 0..(R - 1) |-> NoErr]
  /\ before = [source |-> [i \in 0..(R - 1) |-> None],
               generation |-> [i \in 0..(R - 1) |-> 0],
               attrs |-> [i \in 0..(R - 1) |-> <<>>],
               param_dict |-> [i \in 0..(R - 1) |-> <<>>]]
  /\ ret = NoRet

\* the halos a rank is constructed with (line 48): the even ranks hold none
\* and the odd ranks one each
InitialRows(R) == [i \in 0..(R - 1) |-> i % 2]
InitialHalos(i) == HaloTable(i, i % 2)

\* every rank is about to run HODBase.__init__ with the same arguments
Init ==
  \E R \in 1..MaxRanks, seed \in Seeds, kw \in InitKwargs :
    /\ InitWith(R, InitialRows(R), seed, kw, "init")
    /\ oracle = FreeOracle
    /\ memo = <<>>

\* ---------------------------------------------------------------- __init__
\* lines 63-78 and the entry into GatherArray of line 107
InitPreflight(i) ==
  /\ pc[i] = "init"
  /\ LET at == [k \in {"mdef", "redshift", "rsd", "seed"} \cup Elems(call.params) |->
                  IF k = "seed" THEN call.seed
                  ELSE IF k \in Elems(call.params) THEN InitValue ELSE 0]
         r  == SetHodParams([p \in ModelParams |-> DefaultValue], at, 1)
     IN /\ attrs' = [attrs EXCEPT ![i] = at]
        /\ param_dict' = [param_dict EXCEPT ![i] = r.pd]
        /\ err' = [err EXCEPT ![i] = r.err]
        /\ IF r.err # NoErr
           THEN /\ pc' = [pc EXCEPT ![i] = "raised"]
                /\ UNCHANGED entered
           ELSE /\ pc' = [pc EXCEPT ![i] = "in_gather"]
                /\ entered' = [entered EXCEPT ![i] = Append(@, "gather")]
  /\ UNCHANGED <<oracle, memo, nranks, call, ncalls, halos, all_halos, data, scattered,
                 source, populated, generation, before, ret>>

\* a gather that leaves the consolidated array on every rank
MakesourceGatherAll(i) ==
  /\ pc[i] = "in_gather"
  /\ \A j \in Ranks : "gather" \in Elems(entered[j])
  /\ all_halos' = [all_halos EXCEPT ![i] = GatherArray(halos, 0, nranks)]
  /\ IF i = 0
     THEN /\ pc' = [pc EXCEPT ![i] = "populate"]
          /\ UNCHANGED <<data, entered>>
     ELSE /\ pc' = [pc EXCEPT ![i] = "in_scatter"]
          /\ data' = [data EXCEPT ![i] = None]
          /\ entered' = [entered EXCEPT ![i] = Append(@, "scatter")]
  /\ UNCHANGED <<oracle, memo, nranks, call, ncalls, halos, scattered, attrs,
                 param_dict, source, populated, generation, err, before, ret>>

\* a gather that takes the rows away from the ranks that sent them
MakesourceGatherConsume(i) ==
  /\ pc[i] = "in_gather"
  /\ \A j \in Ranks : "gather" \in Elems(entered[j])
  /\ all_halos' = [all_halos EXCEPT ![i] = GatherArray(halos, i, nranks)]
  /\ IF i = 0
     THEN /\ pc' = [pc EXCEPT ![i] = "populate"]
          /\ UNCHANGED <<data, entered, halos>>
     ELSE /\ pc' = [pc EXCEPT ![i] = "in_scatter"]
          /\ data' = [data EXCEPT ![i] = None]
          /\ entered' = [entered EXCEPT ![i] = Append(@, "scatter")]
          /\ halos' = [halos EXCEPT ![i] = Slice(@, 1, 0)]
  /\ UNCHANGED <<oracle, memo, nranks, call, ncalls, scattered, attrs,
                 param_dict, source, populated, generation, err, before, ret>>

\* line 107 returns once every rank has reached it; the other ranks go on to
\* line 124 and into ScatterArray
MakesourceGather(i) ==
  /\ pc[i] = "in_gather"
  /\ \A j \in Ranks : "gather" \in Elems(entered[j])
  /\ all_halos' = [all_halos EXCEPT ![i] = GatherArray(halos, i, nranks)]
  /\ IF i = 0
     THEN /\ pc' = [pc EXCEPT ![i] = "populate"]
          /\ UNCHANGED <<data, entered>>
     ELSE /\ pc' = [pc EXCEPT ![i] = "in_scatter"]
          /\ data' = [data EXCEPT ![i] = None]
          /\ entered' = [entered EXCEPT ![i] = Append(@, "scatter")]
  /\ UNCHANGED <<oracle, memo, nranks, call, ncalls, halos, scattered, attrs, param_dict,
                 source, populated, generation, err, before, ret>>

\* a root that keeps all_halos after making it the halo table
MakesourcePopulateKeep ==
  /\ call.op = "init"
  /\ pc[0] = "populate"
  /\ halos' = [halos EXCEPT ![0] = remove_object_dtypes(all_halos[0])]
  /\ \E o \in PopulateOutcomes(attrs[0]["seed"], param_dict[0]) :
       IF o = Raises
       THEN /\ pc' = [pc EXCEPT ![0] = "raised"]
            /\ err' = [err EXCEPT ![0] = <<"TransformError", "populate_mock">>]
            /\ UNCHANGED data
       ELSE /\ data' = [data EXCEPT ![0] = remove_object_dtypes(o)]
            /\ pc' = [pc EXCEPT ![0] = "stats"]
            /\ UNCHANGED err
  /\ entered' = [entered EXCEPT ![0] = Append(@, "transform")]
  /\ UNCHANGED <<oracle, memo, nranks, call, ncalls, all_halos, scattered,
                 attrs, param_dict, source, populated, generation, before, ret>>

\* lines 110-122 on the root: the halo table becomes the gathered one, then
\* populate_mock either raises or leaves a galaxy table
MakesourcePopulate ==
  /\ call.op = "init"
  /\ pc[0] = "populate"
  /\ halos' = [halos EXCEPT ![0] = remove_object_dtypes(all_halos[0])]
  /\ all_halos' = [all_halos EXCEPT ![0] = None]
  /\ \E o \in PopulateOutcomes(attrs[0]["seed"], param_dict[0]) :
       IF o = Raises
       THEN /\ pc' = [pc EXCEPT ![0] = "raised"]
            /\ err' = [err EXCEPT ![0] = <<"TransformError", "populate_mock">>]
            /\ UNCHANGED data
       ELSE /\ data' = [data EXCEPT ![0] = remove_object_dtypes(o)]
            /\ pc' = [pc EXCEPT ![0] = "stats"]
            /\ UNCHANGED err
  /\ entered' = [entered EXCEPT ![0] = Append(@, "transform")]
  /\ UNCHANGED <<oracle, memo, nranks, call, ncalls, scattered, attrs, param_dict,
                 source, populated, generation, before, ret>>

\* lines 127-130 on the root: log the stats, then enter ScatterArray
MakesourceStats ==
  /\ call.op = "init"
  /\ pc[0] = "stats"
  /\ IF LogPopulatedStats(data[0]) # ""
     THEN /\ pc' = [pc EXCEPT ![0] = "raised"]
          /\ err' = [err EXCEPT ![0] = <<"StatsError", LogPopulatedStats(data[0])>>]
          /\ UNCHANGED <<entered, scattered>>
     ELSE /\ pc' = [pc EXCEPT ![0] = "in_scatter"]
          /\ entered' = [entered EXCEPT ![0] = Append(@, "scatter")]
          /\ scattered' = data[0]
          /\ UNCHANGED err
  /\ UNCHANGED <<oracle, memo, nranks, call, ncalls, halos, all_halos, data, attrs,
                 param_dict, source, populated, generation, before, ret>>

\* line 130 returns once every rank has reached it, and Array.__init__ of
\* line 81 takes the rows as the rank's source
InitInstall(i) ==
  /\ call.op = "init"
  /\ pc[i] = "in_scatter"
  /\ \A j \in Ranks : "scatter" \in Elems(entered[j])
  /\ source' = [source EXCEPT ![i] = ScatterArray(scattered, i, nranks)]
  /\ data' = [data EXCEPT ![i] = None]
  /\ pc' = [pc EXCEPT ![i] = "check"]
  /\ entered' = [entered EXCEPT ![i] = Append(@, "install")]
  /\ UNCHANGED <<oracle, memo, nranks, call, ncalls, halos, all_halos, scattered,
                 attrs, param_dict, populated, generation, err, before, ret>>

\* an __init__ without the check of csize
InitCheckSkipped(i) ==
  /\ pc[i] = "check"
  /\ pc' = [pc EXCEPT ![i] = "idle"]
  /\ populated' = [populated EXCEPT ![i] = TRUE]
  /\ generation' = [generation EXCEPT ![i] = BumpGeneration(@)]
  /\ UNCHANGED <<oracle, memo, nranks, call, ncalls, entered, halos, all_halos, data,
                 scattered, attrs, param_dict, source, err, before, ret>>

\* lines 83-85: crash with no particles, else the catalog is populated
InitCheck(i) ==
  /\ pc[i] = "check"
  /\ IF SumSizes(NRows(scattered), nranks - 1, nranks) = 0
     THEN /\ pc' = [pc EXCEPT ![i] = "raised"]
          /\ err' = [err EXCEPT ![i] = <<"EmptyResultError", "">>]
          /\ UNCHANGED <<populated, generation>>
     ELSE /\ pc' = [pc EXCEPT ![i] = "idle"]
          /\ populated' = [populated EXCEPT ![i] = TRUE]
          /\ generation' = [generation EXCEPT ![i] = BumpGeneration(@)]
          /\ UNCHANGED err
  /\ UNCHANGED <<oracle, memo, nranks, call, ncalls, entered, halos, all_halos, data,
                 scattered, attrs, param_dict, source, before, ret>>

\* ---------------------------------------------------------------- repopulate
\* every rank of a populated catalog calls repopulate with the same arguments
CallRepopulate ==
  /\ ncalls < CallLimit
  /\ \A i \in Ranks : populated[i] /\ pc[i] \in {"idle", "raised"}
  /\ \E seed \in Seeds, kw \in RepopKwargs :
       call' = [op |-> "repopulate", seed |-> seed, params |-> kw]
  /\ ncalls' = ncalls + 1
  /\ pc' = [i \in Ranks |-> "bind"]
  /\ err' = [i \in Ranks |-> NoErr]
  /\ entered' = [i \in Ranks |-> <<>>]
  /\ scattered' = None
  /\ before' = Snapshot
  /\ ret' = NoRet
  /\ UNCHANGED <<oracle, memo, nranks, halos, all_halos, data, attrs, param_dict, source,
                 populated, generation>>

\* a repopulate that gathers the halos again before the root populates
RepopBindGather(i) ==
  /\ pc[i] = "bind"
  /\ LET r == UpdateHodParams(param_dict[i], call.params, 1)
     IN /\ attrs' = [attrs EXCEPT ![i]["seed"] = call.seed]
        /\ param_dict' = [param_dict EXCEPT ![i] = r.pd]
        /\ err' = [err EXCEPT ![i] = r.err]
        /\ IF r.err # NoErr
           THEN /\ pc' = [pc EXCEPT ![i] = "raised"]
                /\ UNCHANGED entered
           ELSE /\ pc' = [pc EXCEPT ![i] = "in_gather"]
                /\ entered' = [entered EXCEPT ![i] = Append(@, "gather")]
  /\ UNCHANGED <<oracle, memo, nranks, call, ncalls, halos, all_halos, data,
                 scattered, source, populated, generation, before, ret>>

\* lines 147-155, and on the other ranks line 170 and the entry into
\* ScatterArray of line 177
RepopBind(i) ==
  /\ pc[i] = "bind"
  /\ LET r == UpdateHodParams(param_dict[i], call.params, 1)
     IN /\ attrs' = [attrs EXCEPT ![i]["seed"] = call.seed]
        /\ param_dict' = [param_dict EXCEPT ![i] = r.pd]
        /\ err' = [err EXCEPT ![i] = r.err]
        /\ IF r.err # NoErr
           THEN /\ pc' = [pc EXCEPT ![i] = "raised"]
                /\ UNCHANGED <<entered, data>>
           ELSE IF i = 0
           THEN /\ pc' = [pc EXCEPT ![i] = "populate"]
                /\ UNCHANGED <<entered, data>>
           ELSE /\ pc' = [pc EXCEPT ![i] = "in_scatter"]
                /\ data' = [data EXCEPT ![i] = None]
                /\ entered' = [entered EXCEPT ![i] = Append(@, "scatter")]
  /\ UNCHANGED <<oracle, memo, nranks, call, ncalls, halos, all_halos, scattered, source,
                 populated, generation, before, ret>>

\* a repopulate whose model is still seeded with the seed of the call before
RepopPopulateStaleSeed ==
  /\ call.op = "repopulate"
  /\ pc[0] = "populate"
  /\ \E o \in PopulateOutcomes(before.attrs[0]["seed"], param_dict[0]) :
       IF o = Raises
       THEN /\ pc' = [pc EXCEPT ![0] = "raised"]
            /\ err' = [err EXCEPT ![0] = <<"TransformError", "populate">>]
            /\ UNCHANGED data
       ELSE /\ data' = [data EXCEPT ![0] = remove_object_dtypes(o)]
            /\ pc' = [pc EXCEPT ![0] = "stats"]
            /\ UNCHANGED err
  /\ entered' = [entered EXCEPT ![0] = Append(@, "transform")]
  /\ UNCHANGED <<oracle, memo, nranks, call, ncalls, halos, all_halos, scattered,
                 attrs, param_dict, source, populated, generation, before, ret>>

\* a repopulate that drops the rows the root holds before it calls the model
RepopPopulateClears ==
  /\ call.op = "repopulate"
  /\ pc[0] = "populate"
  /\ source' = [source EXCEPT ![0] = Slice(@, 1, 0)]
  /\ \E o \in PopulateOutcomes(attrs[0]["seed"], param_dict[0]) :
       IF o = Raises
       THEN /\ pc' = [pc EXCEPT ![0] = "raised"]
            /\ err' = [err EXCEPT ![0] = <<"TransformError", "populate">>]
            /\ UNCHANGED data
       ELSE /\ data' = [data EXCEPT ![0] = remove_object_dtypes(o)]
            /\ pc' = [pc EXCEPT ![0] = "stats"]
            /\ UNCHANGED err
  /\ entered' = [entered EXCEPT ![0] = Append(@, "transform")]
  /\ UNCHANGED <<oracle, memo, nranks, call, ncalls, halos, all_halos, scattered,
                 attrs, param_dict, populated, generation, before, ret>>

\* lines 158-167 on the root: mock.populate either raises or leaves a galaxy
\* table
RepopPopulate ==
  /\ call.op = "repopulate"
  /\ pc[0] = "populate"
  /\ \E o \in PopulateOutcomes(attrs[0]["seed"], param_dict[0]) :
       IF o = Raises
       THEN /\ pc' = [pc EXCEPT ![0] = "raised"]
            /\ err' = [err EXCEPT ![0] = <<"TransformError", "populate">>]
            /\ UNCHANGED data
       ELSE /\ data' = [data EXCEPT ![0] = remove_object_dtypes(o)]
            /\ pc' = [pc EXCEPT ![0] = "stats"]
            /\ UNCHANGED err
  /\ entered' = [entered EXCEPT ![0] = Append(@, "transform")]
  /\ UNCHANGED <<oracle, memo, nranks, call, ncalls, halos, all_halos, scattered,
                 attrs, param_dict, source, populated, generation, before, ret>>

\* lines 172-177 on the root: log the stats, then enter ScatterArray
RepopStats ==
  /\ call.op = "repopulate"
  /\ pc[0] = "stats"
  /\ IF LogPopulatedStats(data[0]) # ""
     THEN /\ pc' = [pc EXCEPT ![0] = "raised"]
          /\ err' = [err EXCEPT ![0] = <<"StatsError", LogPopulatedStats(data[0])>>]
          /\ UNCHANGED <<entered, scattered>>
     ELSE /\ pc' = [pc EXCEPT ![0] = "in_scatter"]
          /\ entered' = [entered EXCEPT ![0] = Append(@, "scatter")]
          /\ scattered' = data[0]
          /\ UNCHANGED err
  /\ UNCHANGED <<oracle, memo, nranks, call, ncalls, halos, all_halos, data, attrs,
                 param_dict, source, populated, generation, before, ret>>

\* a repopulate whose root keeps the whole array and hands out nothing
RepopInstallUnscattered(i) ==
  /\ call.op = "repopulate"
  /\ pc[i] = "in_scatter"
  /\ \A j \in Ranks : "scatter" \in Elems(entered[j])
  /\ source' = [source EXCEPT ![i] =
                  IF i = 0 THEN scattered ELSE Slice(scattered, 1, 0)]
  /\ generation' = [generation EXCEPT ![i] = BumpGeneration(@)]
  /\ data' = [data EXCEPT ![i] = None]
  /\ pc' = [pc EXCEPT ![i] = "idle"]
  /\ entered' = [entered EXCEPT ![i] = Append(@, "install")]
  /\ memo' = Remember(i, source'[i])
  /\ UNCHANGED <<oracle, nranks, call, ncalls, halos, all_halos, scattered,
                 attrs, param_dict, populated, err, before, ret>>

\* a repopulate that installs the new rows and leaves the counter alone
RepopInstallUncounted(i) ==
  /\ call.op = "repopulate"
  /\ pc[i] = "in_scatter"
  /\ \A j \in Ranks : "scatter" \in Elems(entered[j])
  /\ source' = [source EXCEPT ![i] = ScatterArray(scattered, i, nranks)]
  /\ data' = [data EXCEPT ![i] = None]
  /\ pc' = [pc EXCEPT ![i] = "idle"]
  /\ entered' = [entered EXCEPT ![i] = Append(@, "install")]
  /\ memo' = Remember(i, source'[i])
  /\ UNCHANGED <<oracle, nranks, call, ncalls, halos, all_halos, scattered,
                 attrs, param_dict, populated, generation, err, before, ret>>

\* a repopulate that appends the new rows to the rows the rank already holds
\* (where the columns agree)
RepopInstallAppend(i) ==
  /\ call.op = "repopulate"
  /\ pc[i] = "in_scatter"
  /\ \A j \in Ranks : "scatter" \in Elems(entered[j])
  /\ source' = [source EXCEPT ![i] =
                  IF ColNames(@) = ColNames(scattered)
                  THEN Concat(@, ScatterArray(scattered, i, nranks))
                  ELSE ScatterArray(scattered, i, nranks)]
  /\ generation' = [generation EXCEPT ![i] = BumpGeneration(@)]
  /\ data' = [data EXCEPT ![i] = None]
  /\ pc' = [pc EXCEPT ![i] = "idle"]
  /\ entered' = [entered EXCEPT ![i] = Append(@, "install")]
  /\ memo' = Remember(i, source'[i])
  /\ UNCHANGED <<oracle, nranks, call, ncalls, halos, all_halos, scattered,
                 attrs, param_dict, populated, err, before, ret>>

\* line 177: ScatterArray returns once every rank has reached it, and
\* Array.__init__ takes the rows as the rank's source; repopulate returns
RepopInstall(i) ==
  /\ call.op = "repopulate"
  /\ pc[i] = "in_scatter"
  /\ \A j \in Ranks : "scatter" \in Elems(entered[j])
  /\ source' = [source EXCEPT ![i] = ScatterArray(scattered, i, nranks)]
  /\ generation' = [generation EXCEPT ![i] = BumpGeneration(@)]
  /\ data' = [data EXCEPT ![i] = None]
  /\ pc' = [pc EXCEPT ![i] = "idle"]
  /\ entered' = [entered EXCEPT ![i] = Append(@, "install")]
  /\ memo' = Remember(i, source'[i])
  /\ UNCHANGED <<oracle, nranks, call, ncalls, halos, all_halos, scattered,
                 attrs, param_dict, populated, err, before, ret>>

\* ---------------------------------------------------------------- columns
\* once the call has returned on every rank, the caller of one rank reads a
\* derived column
GetPosition(i) ==
  /\ ret = NoRet
  /\ \A j \in Ranks : populated[j] /\ pc[j] \in {"idle", "raised"}
  /\ ret' = [rank |-> i, col |-> "Position",
             val |-> Position(source[i]).val, err |-> Position(source[i]).err]
  /\ UNCHANGED <<oracle, memo, nranks, pc, call, ncalls, entered, halos, all_halos, data,
                 scattered, attrs, param_dict, source, populated, generation,
                 err, before>>

GetVelocity(i) ==
  /\ ret = NoRet
  /\ \A j \in Ranks : populated[j] /\ pc[j] \in {"idle", "raised"}
  /\ ret' = [rank |-> i, col |-> "Velocity",
             val |-> Velocity(source[i]).val, err |-> Velocity(source[i]).err]
  /\ UNCHANGED <<oracle, memo, nranks, pc, call, ncalls, entered, halos, all_halos, data,
                 scattered, attrs, param_dict, source, populated, generation,
                 err, before>>

\* ---------------------------------------------------------------- behaviours
Next ==
  \/ \E i \in Ranks : InitPreflight(i)
  \/ \E i \in Ranks : MakesourceGather(i)
  \/ MakesourcePopulate
  \/ MakesourceStats
  \/ \E i \in Ranks : InitInstall(i)
  \/ \E i \in Ranks : InitCheck(i)
  \/ CallRepopulate
  \/ \E i \in Ranks : RepopBind(i)
  \/ RepopPopulate
  \/ RepopStats
  \/ \E i \in Ranks : RepopInstall(i)
  \/ \E i \in Ranks : GetPosition(i)
  \/ \E i \in Ranks : GetVelocity(i)

Spec == Init /\ [][Next]_vars

\* the steps of rank i: the code of __init__ / repopulate it runs
RankStep(i) ==
  /\ i \in Ranks
  /\ \/ InitPreflight(i)
     \/ MakesourceGather(i)
     \/ i = 0 /\ (MakesourcePopulate \/ MakesourceStats)
     \/ InitInstall(i)
     \/ InitCheck(i)
     \/ RepopBind(i)
     \/ i = 0 /\ (RepopPopulate \/ RepopStats)
     \/ RepopInstall(i)

\* every rank is a process of its own that keeps running: a rank that can
\* take its next step takes it. Nothing obliges the caller to call again.
FairSpec == Spec /\ \A i \in 0..(MaxRanks - 1) : WF_vars(RankStep(i))

\* ---------------------------------------------------------------- seeded model
\* the same program over a model that keeps the promise of the seed argument
\* (lines 268-269, "the random seed to generate deterministic mocks"): a call
\* with a seed and given bindings of the parameters always has the same
\* outcome, whichever it is; a call with seed=None does not
DetOutcomes == {GalaxyTable(GalCols, MaxRows, v) : v \in Variants} \cup {Raises}
DetKeys ==
  {<<s, [p \in ModelParams |-> IF p = "alpha" THEN a ELSE InitValue]>> :
     s \in Seeds \ {NoSeed}, a \in {InitValue, NewValue}}

DetInit ==
  \E R \in 1..MaxRanks, seed \in Seeds, h \in [DetKeys -> DetOutcomes] :
    /\ InitWith(R, InitialRows(R), seed, ParamOrder, "init")
    /\ oracle = [seeded |-> h, unseeded |-> {GalaxyTable(GalCols, 1, 1)}]
    /\ memo = [k \in DetKeys |-> [i \in 0..(R - 1) |-> None]]

DetSpec == DetInit /\ [][Next]_vars

\* ---------------------------------------------------------------- round trip
\* GatherArray followed at once by ScatterArray of what the root received, as
\* lines 107 and 130 would run with nothing in between: every rank starts with
\* up to MaxHalos rows of its own
RTInit ==
  \E R \in 1..MaxRanks :
    \E hn \in [0..(R - 1) -> 0..MaxHalos] :
      /\ InitWith(R, hn, NoSeed, <<>>, "rt_start")
      /\ oracle = FreeOracle
      /\ memo = <<>>

RTEnterGather(i) ==
  /\ pc[i] = "rt_start"
  /\ pc' = [pc EXCEPT ![i] = "rt_in_gather"]
  /\ entered' = [entered EXCEPT ![i] = Append(@, "gather")]
  /\ UNCHANGED <<oracle, memo, nranks, call, ncalls, halos, all_halos, data, scattered,
                 attrs, param_dict, source, populated, generation, err,
                 before, ret>>

RTGather(i) ==
  /\ pc[i] = "rt_in_gather"
  /\ \A j \in Ranks : "gather" \in Elems(entered[j])
  /\ all_halos' = [all_halos EXCEPT ![i] = GatherArray(halos, i, nranks)]
  /\ data' = [data EXCEPT ![i] = GatherArray(halos, i, nranks)]
  /\ scattered' = IF i = 0 THEN GatherArray(halos, i, nranks) ELSE scattered
  /\ pc' = [pc EXCEPT ![i] = "rt_in_scatter"]
  /\ entered' = [entered EXCEPT ![i] = Append(@, "scatter")]
  /\ UNCHANGED <<oracle, memo, nranks, call, ncalls, halos, attrs, param_dict, source,
                 populated, generation, err, before, ret>>

RTScatter(i) ==
  /\ pc[i] = "rt_in_scatter"
  /\ \A j \in Ranks : "scatter" \in Elems(entered[j])
  /\ source' = [source EXCEPT ![i] = ScatterArray(scattered, i, nranks)]
  /\ pc' = [pc EXCEPT ![i] = "rt_done"]
  /\ UNCHANGED <<oracle, memo, nranks, call, ncalls, entered, halos, all_halos, data,
                 scattered, attrs, param_dict, populated, generation, err,
                 before, ret>>

RTNext ==
  \/ \E i \in Ranks : RTEnterGather(i)
  \/ \E i \in Ranks : RTGather(i)
  \/ \E i \in Ranks : RTScatter(i)

RTSpec == RTInit /\ [][RTNext]_vars

\* ---------------------------------------------------------------- properties
ErrKind(i) == IF err[i] = NoErr THEN "" ELSE err[i][1]

\* rank i has left the ScatterArray of the current call and holds its rows
Installed(i) ==
  /\ scattered # None
  /\ pc[i] \in {"check", "idle"} \/ ErrKind(i) = "EmptyResultError"

RECURSIVE TotalRows(_, _)
TotalRows(f, r) == IF r < 0 THEN 0 ELSE NRows(f[r]) + TotalRows(f, r - 1)

\* the rows i of R ranks is due from table t: the block after the blocks of
\* the ranks below it
ExpectedBlock(t, i, R) ==
  LET T  == NRows(t)
      q  == T \div R
      r  == T % R
      lo == IF i < r THEN i * (q + 1) ELSE r * (q + 1) + (i - r) * q
      n  == IF i < r THEN q + 1 ELSE q
  IN SubSeq(Rows(t), lo + 1, lo + n)

Triples(t, a, b, c) ==
  [k \in 1..NRows(t) |-> <<t.cols[a][k], t.cols[b][k], t.cols[c][k]>>]

ExampleShard ==
  [cols  |-> [c \in {"x", "y", "z"} |->
                CASE c = "x" -> <<1, 2>> [] c = "y" -> <<3, 4>> [] OTHER -> <<5, 6>>],
   dtype |-> [c \in {"x", "y", "z"} |-> "f8"]]

\* C1: after a scatter of T rows over R ranks, rank i holds floor(T/R)+1 rows
\* if i < T mod R and floor(T/R) rows otherwise; every size is floor(T/R) or
\* ceil(T/R), the ranks with the larger size are exactly the T mod R lowest,
\* and the sizes add up to T.
C1_BalancedPartition ==
  LET T == NRows(scattered)
      R == nranks
  IN /\ \A i \in Ranks : Installed(i) =>
          /\ NRows(source[i]) = IF i < T % R THEN (T \div R) + 1 ELSE T \div R
          /\ NRows(source[i]) \in {T \div R, (T + R - 1) \div R}
     /\ (\A i \in Ranks : Installed(i)) =>
          /\ TotalRows(source, R - 1) = T
          /\ {i \in Ranks : NRows(source[i]) = (T \div R) + 1} = {i \in Ranks : i < T % R}
          /\ Cardinality({i \in Ranks : NRows(source[i]) = (T \div R) + 1}) = T % R

C1_Witness ==
  /\ call.op = "repopulate"
  /\ nranks = 2
  /\ \A i \in Ranks : Installed(i)
  /\ NRows(scattered) = 3
  /\ NRows(source[0]) = 2
  /\ NRows(source[1]) = 1

\* C2: gathering the ranks' local rows and scattering the result at once
\* preserves the content: the shards concatenated by increasing rank are the
\* local row sequences concatenated by increasing rank.
C2_RoundTripIdentity ==
  (\A i \in Ranks : pc[i] = "rt_done") =>
     /\ GatherUpTo(source, nranks - 1) = GatherUpTo(halos, nranks - 1)
     /\ Rows(GatherUpTo(source, nranks - 1)) = Rows(GatherUpTo(halos, nranks - 1))

C2_Witness ==
  /\ nranks = 2
  /\ \A i \in Ranks : pc[i] = "rt_done"
  /\ NRows(halos[0]) = 0
  /\ NRows(halos[1]) = 3
  /\ NRows(source[0]) = 2

\* C3: a construction whose keyword arguments lack a parameter of the model
\* fails on every rank with MissingParameterError naming a lacking parameter,
\* before any rank has entered gather or scatter or holds a shard.
MissingParams == ModelParams \ Elems(call.params)

C3_MissingParameterPreflight ==
  (call.op = "init" /\ MissingParams # {}) =>
    /\ scattered = None
    /\ \A i \in Ranks :
         /\ pc[i] \in {"init", "raised"}
         /\ entered[i] = <<>>
         /\ source[i] = None
         /\ all_halos[i] = None
         /\ ~populated[i]
         /\ pc[i] = "raised" =>
              /\ ErrKind(i) = "MissingParameterError"
              /\ err[i][2] \in MissingParams

C3_Witness ==
  /\ call.op = "init"
  /\ nranks = 2
  /\ call.params = <<"alpha", BadParam>>
  /\ \A i \in Ranks : pc[i] = "raised" /\ err[i] = <<"MissingParameterError", "logMmin">>

\* C4: a repopulate with a name the model does not know fails on every rank
\* with UnknownParameterError before any collective operation, and the rank's
\* shard and generation counter stay as they were before the call.
UnknownNames == Elems(call.params) \ ModelParams

C4_UnknownParameterRejected ==
  (call.op = "repopulate" /\ UnknownNames # {}) =>
    /\ scattered = None
    /\ \A i \in Ranks :
         /\ pc[i] \in {"bind", "raised"}
         /\ entered[i] = <<>>
         /\ source[i] = before.source[i]
         /\ generation[i] = before.generation[i]
         /\ pc[i] = "raised" =>
              /\ ErrKind(i) = "UnknownParameterError"
              /\ err[i][2] \in UnknownNames

C4_Witness ==
  /\ call.op = "repopulate"
  /\ nranks = 2
  /\ \A i \in Ranks : pc[i] = "raised" /\ ErrKind(i) = "UnknownParameterError"
  /\ NRows(source[0]) > 0
  /\ generation[0] = 1

\* C5: a repopulate whose model output has no rows fails with
\* EmptyResultError, and every rank keeps the shard and the generation counter
\* it had before the call.
C5_EmptyRepopulateRejected ==
  (call.op = "repopulate" /\ scattered # None /\ NRows(scattered) = 0) =>
    \A i \in Ranks :
      /\ pc[i] # "idle"
      /\ source[i] = before.source[i]
      /\ generation[i] = before.generation[i]

\* C6: when the array passed to scatter has no rows, gather and scatter
\* complete, every rank receives an empty shard, and the construction fails on
\* every rank with EmptyResultError: no rank becomes populated.  The gather
\* hands the root as many rows as the ranks hold together, none if they hold
\* none.
C6_EmptyConstructionFails ==
  /\ (call.op = "init" /\ pc[0] = "populate") =>
        NRows(all_halos[0]) = TotalRows(halos, nranks - 1)
  /\ (call.op = "init" /\ scattered # None /\ NRows(scattered) = 0) =>
        \A i \in Ranks :
          /\ ~populated[i]
          /\ pc[i] \in {"in_gather", "in_scatter", "check", "raised"}
          /\ pc[i] \in {"check", "raised"} =>
               /\ NRows(source[i]) = 0
               /\ ColNames(source[i]) = ColNames(scattered)
          /\ pc[i] = "raised" => ErrKind(i) = "EmptyResultError"

C6_Witness ==
  /\ call.op = "init"
  /\ nranks = 2
  /\ \A i \in Ranks : /\ pc[i] = "raised"
                      /\ ErrKind(i) = "EmptyResultError"
                      /\ NRows(source[i]) = 0
                      /\ ~populated[i]

\* C7: a rank's generation counter never decreases; it grows by exactly one in
\* the step that completes a population cycle on the rank (the construction or
\* a repopulate returns), and in no other step.
Completes(i) == pc[i] # "idle" /\ pc'[i] = "idle"

C7_GenerationStep ==
  \A i \in Ranks :
    /\ generation'[i] >= generation[i]
    /\ generation'[i] # generation[i] =>
         generation'[i] = generation[i] + 1 /\ Completes(i)
    /\ Completes(i) => generation'[i] = generation[i] + 1

C8_ShardReplaced ==
  \A i \in Ranks :
    (populated[i] /\ call.op = "repopulate") =>
      IF pc[i] = "idle"
      THEN /\ Rows(source[i]) = ExpectedBlock(scattered, i, nranks)
           /\ ColNames(source[i]) = ColNames(scattered)
      ELSE source[i] = before.source[i]

C8_Witness ==
  /\ call.op = "repopulate"
  /\ nranks = 2
  /\ \A i \in Ranks : pc[i] = "idle"
  /\ NRows(before.source[1]) > 0
  /\ NRows(source[1]) > 0
  /\ source[1] # before.source[1]

\* C9: what Position returns on a rank is, in row order, the triples
\* (x[k], y[k], z[k]) of the shard the rank holds now, and what Velocity
\* returns the triples (vx[k], vy[k], vz[k]); x=[1,2], y=[3,4], z=[5,6] give
\* (1,3,5) and (2,4,6).
C9_DerivedColumns ==
  /\ Position(ExampleShard) = [val |-> <<<<1, 3, 5>>, <<2, 4, 6>>>>, err |-> NoErr]
  /\ (ret.rank >= 0 /\ ret.col = "Position") =>
       LET t == source[ret.rank]
       IN {"x", "y", "z"} \subseteq ColNames(t) =>
            ret.err = NoErr /\ ret.val = Triples(t, "x", "y", "z")
  /\ (ret.rank >= 0 /\ ret.col = "Velocity") =>
       LET t == source[ret.rank]
       IN {"vx", "vy", "vz"} \subseteq ColNames(t) =>
            ret.err = NoErr /\ ret.val = Triples(t, "vx", "vy", "vz")

C9_Witness ==
  /\ call.op = "repopulate"
  /\ ret.rank >= 0
  /\ ret.col = "Position"
  /\ Len(ret.val) = 2
  /\ source[ret.rank] # before.source[ret.rank]

\* C10: a Position (Velocity) read on a shard that lacks one of x, y, z (vx,
\* vy, vz) fails with MissingColumnError naming a lacking column, and a failed
\* read leaves the shards, the generation counters, the attributes and the
\* parameter bindings as they were.
C10_ReadStep ==
  (ret' # ret /\ ret'.rank >= 0) =>
    LET t    == source[ret'.rank]
        need == IF ret'.col = "Position" THEN {"x", "y", "z"} ELSE {"vx", "vy", "vz"}
    IN /\ ~(need \subseteq ColNames(t)) =>
            /\ ret'.err # NoErr
            /\ ret'.err[1] = "MissingColumnError"
            /\ ret'.err[2] \in need \ ColNames(t)
       /\ ret'.err # NoErr =>
            UNCHANGED <<source, generation, param_dict, attrs>>

C10_MissingColumn == [][C10_ReadStep]_vars

C10_Witness ==
  /\ ret.rank >= 0
  /\ ret.col = "Position"
  /\ ret.err = <<"MissingColumnError", "y">>
  /\ NRows(source[ret.rank]) > 0

\* ---------------------------------------------------------------- (C11)
IsPrefix(a, b) == Len(a) <= Len(b) /\ \A k \in 1..Len(a) : a[k] = b[k]

\* the steps of a population cycle on rank i: gather, the model call on the
\* root, scatter, install
FullCycle(i) ==
  IF i = 0 THEN <<"gather", "transform", "scatter", "install">>
  ELSE <<"gather", "scatter", "install">>

\* the steps the two callers run: __init__ goes through _makesource and its
\* GatherArray, repopulate starts at the model call
CycleSteps(op, i) == IF op = "init" THEN FullCycle(i) ELSE Tail(FullCycle(i))

\* (C11) as stated: in every call, construction or repopulate, each rank goes
\* through gather, then (on the root) the model call, then scatter, then
\* install, in that order.
C11_SameStepsEveryCycle ==
  \A i \in Ranks : IsPrefix(entered[i], FullCycle(i))

\* (C11) amended: a construction takes each rank through gather, then (on the
\* root) the model call, then scatter, then install; a repopulate takes each
\* rank through the same steps without the gather: the model call on the
\* root, then scatter, then install. A rank whose call has returned normally
\* has run all the steps of its call.
C11_CycleSteps ==
  \A i \in Ranks :
    /\ IsPrefix(entered[i], CycleSteps(call.op, i))
    /\ pc[i] = "idle" => entered[i] = CycleSteps(call.op, i)

\* a repopulate has returned on both of two ranks, and neither gathered
C11_Witness ==
  /\ nranks = 2
  /\ call.op = "repopulate"
  /\ \A i \in Ranks : pc[i] = "idle"
  /\ entered[0] = <<"transform", "scatter", "install">>
  /\ entered[1] = <<"scatter", "install">>

\* ---------------------------------------------------------------- (C12)
\* (C12) A construction whose mapping holds, besides every parameter of the
\* model, a name the model does not have fails with UnknownParameterError: no
\* rank gets past the binding of the parameters, a rank that has raised has
\* raised UnknownParameterError, and no populated catalog carries such a name
\* in the mapping it was given.
C12_UnknownNameAtConstruction ==
  (call.op = "init" /\ UnknownNames # {} /\ MissingParams = {}) =>
    \A i \in Ranks :
      /\ pc[i] \in {"init", "raised"}
      /\ pc[i] = "raised" => ErrKind(i) = "UnknownParameterError"
      /\ ~populated[i]
      /\ populated[i] => BadParam \notin DOMAIN attrs[i]

\* ---------------------------------------------------------------- (C13)
\* (C13) Over a model that is deterministic in its seed and bindings, a
\* repopulate with a seed leaves on every rank the rows that the first
\* repopulate with that seed and those bindings of the parameters left there,
\* whatever calls were made in between.
C13_SeededRepopulateRepeats ==
  \A i \in Ranks :
    (call.op = "repopulate" /\ pc[i] = "idle") =>
      LET key == <<attrs[i]["seed"], param_dict[i]>>
      IN key \in DOMAIN memo => source[i] = memo[key][i].rows

\* the third repopulate on two ranks repeats the seed and bindings of the
\* first, after a second one without a seed that installed other rows
C13_Witness ==
  /\ nranks = 2
  /\ ncalls = 3
  /\ call.op = "repopulate"
  /\ call.seed # NoSeed
  /\ \A i \in Ranks : pc[i] = "idle"
  /\ before.attrs[0]["seed"] = NoSeed
  /\ before.source # source
  /\ <<call.seed, param_dict[0]>> \in DOMAIN memo
  /\ \A i \in Ranks : /\ NRows(source[i]) > 0
                      /\ memo[<<call.seed, param_dict[0]>>][i].call = 1
                      /\ source[i] = memo[<<call.seed, param_dict[0]>>][i].rows

\* ---------------------------------------------------------------- (C14)
Count(seq, x) == Cardinality({k \in DOMAIN seq : seq[k] = x})

\* (C14) The gather leaves the consolidated halos on rank 0 and nothing on the
\* other ranks; the model is called on rank 0 only, at most once in a call
\* and exactly once before rank 0 enters scatter; a rank other than 0 never
\* calls the model and never has rows to pass into scatter.
C14_DesignatedRankOnly ==
  /\ \A i \in Ranks \ {0} :
       /\ all_halos[i] = None
       /\ data[i] = None
       /\ pc[i] \notin {"populate", "stats"}
       /\ Count(entered[i], "transform") = 0
  /\ (call.op = "init" /\ pc[0] = "populate") =>
       all_halos[0] = GatherUpTo(halos, nranks - 1)
  /\ Count(entered[0], "transform") <= 1
  /\ "scatter" \in Elems(entered[0]) =>
       /\ Count(entered[0], "transform") = 1
       /\ scattered # None

\* on two ranks the root has gathered the other rank's halo and called the
\* model, while the other rank waits in scatter with nothing to pass
C14_Witness ==
  /\ nranks = 2
  /\ call.op = "init"
  /\ pc[0] = "stats" /\ pc[1] = "in_scatter"
  /\ entered[0] = <<"gather", "transform">>
  /\ NRows(halos[0]) = 1
  /\ NRows(data[0]) > 0
  /\ data[1] = None /\ all_halos[1] = None

\* ---------------------------------------------------------------- (C15)
\* the halos of all ranks in rank order, as the construction gathered them
Consolidated == GatherUpTo([i \in Ranks |-> InitialHalos(i)], nranks - 1)

\* (C15) as stated: once a call has returned on rank 0, rank 0 holds neither
\* the consolidated halos nor the whole output of the model: its locals are
\* released and its halo table is the one it was constructed with.
C15_RootHoldsOnlyShard ==
  (populated[0] /\ pc[0] = "idle") =>
    /\ all_halos[0] = None
    /\ data[0] = None
    /\ halos[0] = InitialHalos(0)

\* (C15) amended: once a call has returned on rank 0, rank 0 has released the
\* gathered array and the whole output of the model and holds of that output
\* only its own shard; it keeps the consolidated halos as its halo table.
C15_RootReleasesOutput ==
  (populated[0] /\ pc[0] = "idle") =>
    /\ all_halos[0] = None
    /\ data[0] = None
    /\ source[0] = ScatterArray(scattered, 0, nranks)
    /\ halos[0] = remove_object_dtypes(Consolidated)

\* a construction has returned on two ranks: the root holds part of the rows
\* of the model, and the other rank's halo in its halo table
C15_Witness ==
  /\ nranks = 2
  /\ call.op = "init"
  /\ \A i \in Ranks : populated[i] /\ pc[i] = "idle"
  /\ data[0] = None /\ all_halos[0] = None
  /\ NRows(source[0]) > 0
  /\ NRows(source[0]) < NRows(scattered)
  /\ NRows(InitialHalos(0)) = 0
  /\ NRows(halos[0]) = 1

\* ---------------------------------------------------------------- (C16)
\* (C16) as stated: the halos each rank, rank 0 included, gave to the gather
\* are the halos it holds afterwards: every rank's halo table is always the
\* one it was constructed with.
C16_LocalInputUnchanged ==
  \A i \in Ranks : halos[i] = InitialHalos(i)

\* rank 0 has run line 113
RootTableSet == call.op # "init" \/ "transform" \in Elems(entered[0])

\* (C16) amended: the gather itself changes no rank's halos, and every rank
\* other than 0 always holds the halos it was constructed with; rank 0 holds
\* its own until it has gathered, and from then on the consolidated halos of
\* all ranks.
C16_GatherLeavesOtherRanks ==
  /\ \A i \in Ranks \ {0} : halos[i] = InitialHalos(i)
  /\ halos[0] = IF RootTableSet THEN remove_object_dtypes(Consolidated)
                ELSE InitialHalos(0)

\* a construction has returned on two ranks: rank 1 still holds its one halo,
\* rank 0 no longer holds what it was constructed with
C16_Witness ==
  /\ nranks = 2
  /\ \A i \in Ranks : populated[i] /\ pc[i] = "idle"
  /\ NRows(halos[1]) = 1
  /\ halos[1] = InitialHalos(1)
  /\ halos[0] # InitialHalos(0)
  /\ halos[0] = halos[1]

\* ---------------------------------------------------------------- (C17)
\* (C17) When the model raises on rank 0 during a repopulate, rank 0 leaves
\* the call with TransformError, and no rank has run the install: every rank
\* holds the rows and the generation it had when the call began.
C17_TransformFailureKeepsShard ==
  (call.op = "repopulate" /\ ErrKind(0) = "TransformError") =>
    /\ pc[0] = "raised"
    /\ entered[0] = <<"transform">>
    /\ \A i \in Ranks :
         /\ "install" \notin Elems(entered[i])
         /\ source[i] = before.source[i]
         /\ generation[i] = before.generation[i]

\* the model has raised in a repopulate on two ranks that both hold rows
C17_Witness ==
  /\ nranks = 2
  /\ call.op = "repopulate"
  /\ pc[0] = "raised"
  /\ err[0] = <<"TransformError", "populate">>
  /\ pc[1] = "in_scatter"
  /\ \A i \in Ranks : NRows(source[i]) > 0 /\ source[i] = before.source[i]

\* ---------------------------------------------------------------- (C18)
\* (C18) The statistics are a diagnostic only: they never make a call raise
\* on rank 0, so rank 0 always goes on from them into scatter, and the rows
\* rank 0 hands to scatter are the rows the model left, unchanged.
C18_StatsNeverFail ==
  /\ ErrKind(0) # "StatsError"
  /\ pc[0] = "in_scatter" => scattered = data[0]

\* ---------------------------------------------------------------- (C19)
\* rank i is inside a call of __init__ or repopulate
InCall(i) == i \in Ranks /\ pc[i] \notin {"idle", "raised"}

\* (C19) Every rank that is inside a call eventually leaves it, with its
\* rows installed or with an error: no rank stays for ever inside scatter
\* waiting for rank 0, also when the model or the statistics raise on rank 0.
C19_EveryRankLeaves ==
  \A i \in 0..(MaxRanks - 1) : InCall(i) ~> ~InCall(i)

\* ---------------------------------------------------------------- (C20)
\* (C20) A repopulate that a rank rejects with UnknownParameterError leaves
\* the rank's configuration as the call found it: the stored seed and every
\* binding of the model's parameters, also when names the model has were
\* passed along with the unknown one.
C20_RejectedRepopulateKeepsConfig ==
  \A i \in Ranks :
    (call.op = "repopulate" /\ ErrKind(i) = "UnknownParameterError") =>
      /\ attrs[i]["seed"] = before.attrs[i]["seed"]
      /\ param_dict[i] = before.param_dict[i]

====
